---- MODULE Spec2Model ----
(***************************************************************************)
(* Tuning curves (nelpy/auxiliary/_tuningcurve.py): TuningCurve1D and      *)
(* DirectionalTuningCurve1D.                                               *)
(*                                                                         *)
(* Firing rates are exact rationals <<numerator, denominator>> (the code   *)
(* uses float64; rounding is not modelled).  Correlate values and bin      *)
(* edges are integers on a grid on which np.linspace is exact.  Gaussian   *)
(* smoothing is not requested at construction (sigma=None).                *)
(*                                                                         *)
(* bst, tc and out show the binned spike train, the curve under study and  *)
(* the curve the last call returned by value.  heap is used where the      *)
(* sharing of arrays and lists between objects matters (SpecAlias): it     *)
(* holds the curve objects and the mutable arrays and lists they refer to. *)
(***************************************************************************)
EXTENDS Integers, Sequences, FiniteSets, TLC

VARIABLES bst, call, tc, out, warned, hist, heap

vars == <<bst, call, tc, out, warned, hist, heap>>

(***************************************************************************)
(* Bounds of the model.                                                    *)
(***************************************************************************)
\* largest number of time bins of the binned spike train
MaxT == 2
\* largest spike count of one unit in one time bin
MaxCount == 1

None == "None"

(***************************************************************************)
(* Rational arithmetic (float64 in the code).                              *)
(***************************************************************************)
RECURSIVE GCD(_, _)
GCD(a, b) == IF b = 0 THEN a ELSE GCD(b, a % b)

Rat(n, d) == LET g == GCD(n, d) IN <<n \div g, d \div g>>

RLt(a, b) == a[1] * b[2] < b[1] * a[2]

RAdd(a, b) == Rat(a[1] * b[2] + b[1] * a[2], a[2] * b[2])

RDiv(a, b) == Rat(a[1] * b[2], a[2] * b[1])

RInt(k) == <<k, 1>>

RECURSIVE RowSumFrom(_, _)
RowSumFrom(row, i) ==
    IF i > Len(row) THEN RInt(0) ELSE RAdd(row[i], RowSumFrom(row, i + 1))

\* ndarray.mean(axis=1) of one row
RowMean(row) == RDiv(RowSumFrom(row, 1), RInt(Len(row)))

\* ndarray.max(axis=1) of one row
RowMax(row) ==
    CHOOSE m \in {row[i] : i \in 1..Len(row)} :
        \A i \in 1..Len(row) : ~RLt(m, row[i])

(***************************************************************************)
(* numpy helpers                                                           *)
(***************************************************************************)
\* np.linspace(lo, hi, num): num evenly spaced edges
Linspace(lo, hi, num) ==
    [i \in 1..num |-> lo + ((i - 1) * (hi - lo)) \div (num - 1)]

\* np.digitize(x, bins, right=True): the i with bins[i-1] < x <= bins[i]
\* (0-based), i.e. the number of edges strictly below x
Digitize(x, bins) == Cardinality({i \in 1..Len(bins) : bins[i] < x})

\* np.histogram bin of x as a 1-based bin number, 0 when x is out of range:
\* bins are half-open [e_k, e_k+1) except the last, which is closed
HistBin(x, bins) ==
    IF x < bins[1] \/ x > bins[Len(bins)] THEN 0
    ELSE IF x = bins[Len(bins)] THEN Len(bins) - 1
    ELSE Cardinality({i \in 1..Len(bins) : bins[i] <= x})

Histogram(xs, bins) ==
    [b \in 1..(Len(bins) - 1) |->
        Cardinality({t \in 1..Len(xs) : HistBin(xs[t], bins) = b})]

\* a 0-based Python column index j (possibly negative) of an axis of
\* length n, as a 1-based position
PyIndex(j, n) == IF j < 0 THEN j + n + 1 ELSE j + 1

(***************************************************************************)
(* The binned spike train and the external correlate.                      *)
(* A time bin (sample) is [x, dir, counts]: the correlate value at the     *)
(* bin's center, the running direction of the epoch it belongs to, and the *)
(* spike count of every unit in the bin (bst.data[:, tt]).                 *)
(***************************************************************************)
UNIT_IDS == <<11, 22>>
UNIT_LABELS == <<"a", "b">>
UNIT_TAGS == <<"ta", "tb">>

Dirs == {"l2r", "r2l"}

\* correlate values on the grid: below extmin, extmin, inside a bin, an
\* interior edge, inside the last bin, extmax, above extmax (for [0, 4])
ExtVals == (-1)..5

\* bin durations ds, in seconds: 1 s and 100 ms
DsChoices == {<<1, 1>>, <<1, 10>>}

CountCols == [1..Len(UNIT_IDS) -> 0..MaxCount]

Samples == [x : ExtVals, dir : Dirs, counts : CountCols]

\* extern.asarray(at=bst.bin_centers)
extern_asarray(samples) == [t \in 1..Len(samples) |-> samples[t].x]

\* the spike train restricted to the epochs of one direction
bst_of(samples, d) == SelectSeq(samples, LAMBDA s : s.dir = d)

(***************************************************************************)
(* Curves.  kind is "curve" for a constructed curve, "empty" for the       *)
(* empty=True object (every attribute None, shown as <<>>), and "raise"    *)
(* when the call raised exc instead of returning.                          *)
(***************************************************************************)
Blank ==
    [kind |-> "empty", exc |-> None, cls |-> None,
     ratemap |-> <<>>, occupancy |-> <<>>, bins |-> <<>>,
     unit_ids |-> <<>>, unit_labels |-> <<>>, unit_tags |-> <<>>,
     unit_ids_l2r |-> {}, unit_ids_r2l |-> {}]

Raise(e) == [Blank EXCEPT !.kind = "raise", !.exc = e]

\* no objects and no arrays or lists
NoHeap == [objs |-> <<>>, cells |-> <<>>]

n_units(c) == Len(c.unit_ids)

n_bins(c) == Len(c.bins) - 1

isempty(c) == c.kind = "empty" \/ Len(c.ratemap) = 0

(***************************************************************************)
(* The estimation pipeline                                                 *)
(***************************************************************************)
\* TuningCurve1D._trans_func: the identity lookup
trans_func_default(samples) == extern_asarray(samples)

compute_occupancy(samples, bins) ==
    Histogram(trans_func_default(samples), bins)

OutOfRangeStrict(idx, nb) == idx > nb

\* the range check of _compute_ratemap
OutOfRange(idx, nb) == idx >= nb

RECURSIVE Accumulate(_, _, _, _, _, _)
\* sum of data[u, tt] over the positions tt >= from of idxs whose column is b
Accumulate(samples, idxs, nb, u, b, from) ==
    IF from > Len(idxs) THEN 0
    ELSE (IF PyIndex(idxs[from] - 1, nb) = b
            THEN samples[from].counts[u] ELSE 0)
         + Accumulate(samples, idxs, nb, u, b, from + 1)

\* ratemap / self._bst.ds: spike counts to Hz
counts_to_hz(counts, ds) ==
    [u \in 1..Len(counts) |-> [b \in 1..Len(counts[u]) |->
        RDiv(RInt(counts[u][b]), ds)]]

\* _compute_ratemap: [exc, ratemap]
compute_ratemap(samples, bins, nu, ds) ==
    LET ext  == trans_func_default(samples)
        nb   == Len(bins) - 1
        idx  == [t \in 1..Len(ext) |-> Digitize(ext[t], bins)]
        kept == SelectSeq(idx, LAMBDA i : i < nb)
    IN  IF \E t \in 1..Len(idx) : OutOfRange(idx[t], nb)
        THEN [exc |-> "ValueError", ratemap |-> <<>>]
        ELSE [exc |-> None,
              ratemap |-> counts_to_hz(
                [u \in 1..nu |-> [b \in 1..nb |->
                    Accumulate(samples, kept, nb, u, b, 1)]], ds)]

\* the division without the denom[denom==0] = 1 guard: x/0 is inf or nan,
\* shown as a zero denominator
NormalizeUnguarded(ratemap, occupancy) ==
    [u \in 1..Len(ratemap) |-> [b \in 1..Len(ratemap[u]) |->
        IF occupancy[b] = 0 THEN <<ratemap[u][b][1], 0>>
        ELSE RDiv(ratemap[u][b], RInt(occupancy[b]))]]

\* _normalize_firing_rate_by_occupancy
normalize_firing_rate_by_occupancy(ratemap, occupancy) ==
    LET denom == [b \in 1..Len(occupancy) |->
                    IF occupancy[b] = 0 THEN 1 ELSE occupancy[b]]
    IN  [u \in 1..Len(ratemap) |-> [b \in 1..Len(ratemap[u]) |->
            RDiv(ratemap[u][b], RInt(denom[b]))]]

\* ratemap[ratemap < minbgrate] = minbgrate
enforce_minbgrate(ratemap, minbgrate) ==
    [u \in 1..Len(ratemap) |-> [b \in 1..Len(ratemap[u]) |->
        IF RLt(ratemap[u][b], minbgrate) THEN minbgrate ELSE ratemap[u][b]]]

FloorThenNormalize(ratemap, occupancy, minbgrate) ==
    normalize_firing_rate_by_occupancy(
        enforce_minbgrate(ratemap, minbgrate), occupancy)

\* normalize by occupancy, then enforce the minimum background rate
normalize_and_floor(ratemap, occupancy, minbgrate) ==
    enforce_minbgrate(
        normalize_firing_rate_by_occupancy(ratemap, occupancy), minbgrate)

\* one pass: occupancy, ratemap, normalization, floor: [exc, occupancy, ratemap]
estimate(samples, bins, nu, ds, minbgrate) ==
    LET occupancy == compute_occupancy(samples, bins)
        rm        == compute_ratemap(samples, bins, nu, ds)
    IN  IF rm.exc # None
        THEN [exc |-> rm.exc, occupancy |-> occupancy, ratemap |-> <<>>]
        ELSE [exc |-> None, occupancy |-> occupancy,
              ratemap |-> normalize_and_floor(rm.ratemap, occupancy, minbgrate)]

(***************************************************************************)
(* Constructors.  An optional keyword argument is {} when it is None and   *)
(* {v} when v is passed.                                                   *)
(***************************************************************************)
Opt(o, default) == IF o = {} THEN default ELSE CHOOSE v \in o : TRUE

\* minbgrate = 0.01 Hz
DefaultMinBgRate == <<1, 100>>
\* min_peakfiringrate = 1.5 Hz
DefaultMinPeakFiringRate == <<3, 2>>
\* max_avgfiringrate = 10 Hz
DefaultMaxAvgFiringRate == <<10, 1>>

\* a transform a caller may pass: the correlate shifted by one grid step
Shift(xs) == [t \in 1..Len(xs) |-> xs[t] + 1]

\* the attribute self.trans_func after lines 80-81: bound only when no
\* transform_func was passed
trans_func_attr(transform_func) ==
    IF transform_func = None THEN "_trans_func" ELSE "unset"

\* the passes of the pipeline a constructor ran, and the restrict_units
\* calls it made: its local variables, kept for inspection
NoTrace == [passes |-> <<>>, restrict |-> <<>>]

\* whether the constructor reaches the estimation pipeline
reaches_pipeline(a) ==
    /\ ~a.empty
    /\ a.n_extern # {}
    /\ trans_func_attr(a.transform_func) # "unset"

bins_of(a) == Linspace(a.extmin, a.extmax, Opt(a.n_extern, 0) + 1)

TuningCurve1D_passes(b, a) ==
    IF a.given /\ reaches_pipeline(a)
    THEN <<estimate(b.samples, bins_of(a), Len(b.unit_ids), b.ds,
                    Opt(a.minbgrate, DefaultMinBgRate))>>
    ELSE <<>>

\* TuningCurve1D.__init__(bst, extern, *, ...); a.given says whether the
\* two positional arguments bst and extern were passed
TuningCurve1D_init(b, a, passes) ==
    IF ~a.given THEN Raise("TypeError")
    ELSE IF a.empty THEN [Blank EXCEPT !.cls = "TuningCurve1D"]
    ELSE IF a.n_extern = {} THEN Raise("NotImplementedError")
    ELSE IF trans_func_attr(a.transform_func) = "unset"
    THEN Raise("AttributeError")
    ELSE
      LET est == passes[1]
      IN  IF est.exc # None THEN Raise(est.exc)
          ELSE [Blank EXCEPT !.kind = "curve", !.cls = "TuningCurve1D",
                             !.ratemap = est.ratemap,
                             !.occupancy = est.occupancy,
                             !.bins = bins_of(a),
                             !.unit_ids = b.unit_ids,
                             !.unit_labels = b.unit_labels,
                             !.unit_tags = b.unit_tags]

\* np.asanyarray(unit_ids)[np.argwhere(flags).squeeze().tolist()] as a set:
\* argwhere gives shape (k, 1); squeeze() leaves shape (k,) for k # 1 but a
\* 0-d array for k = 1, whose tolist() is a bare int; indexing with it gives
\* a numpy scalar, and set(scalar) raises TypeError
ids_where(unit_ids, flags) ==
    LET idx == {i \in 1..Len(unit_ids) : flags[i]}
    IN  IF Cardinality(idx) = 1
        THEN [exc |-> "TypeError", ids |-> {}]
        ELSE [exc |-> None, ids |-> {unit_ids[i] : i \in idx}]

\* DirectionalTuningCurve1D.restrict_units: [exc, ids]
restrict_units(unit_ids, ratemap, min_peak, max_avg, unimodal) ==
    LET peak == ids_where(unit_ids,
                    [u \in 1..Len(ratemap) |-> RLt(min_peak, RowMax(ratemap[u]))])
        avg  == ids_where(unit_ids,
                    [u \in 1..Len(ratemap) |-> RLt(RowMean(ratemap[u]), max_avg)])
    IN  IF peak.exc # None THEN [exc |-> peak.exc, ids |-> {}]
        ELSE IF avg.exc # None THEN [exc |-> avg.exc, ids |-> {}]
        ELSE IF unimodal THEN [exc |-> "NotImplementedError", ids |-> {}]
        ELSE [exc |-> None, ids |-> peak.ids \cap avg.ids]

\* the three passes of DirectionalTuningCurve1D.__init__, in the order
\* left-to-right, right-to-left, combined, up to the first that raises
DirectionalTuningCurve1D_passes(b, a) ==
    IF ~reaches_pipeline(a) THEN <<>>
    ELSE
      LET nu    == Len(b.unit_ids)
          minbg == Opt(a.minbgrate, DefaultMinBgRate)
          l2r   == estimate(bst_of(b.samples, "l2r"), bins_of(a), nu, b.ds, minbg)
          r2l   == estimate(bst_of(b.samples, "r2l"), bins_of(a), nu, b.ds, minbg)
          comb  == estimate(b.samples, bins_of(a), nu, b.ds, minbg)
      IN  IF l2r.exc # None THEN <<l2r>>
          ELSE IF r2l.exc # None THEN <<l2r, r2l>>
          ELSE <<l2r, r2l, comb>>

\* the restrict_units calls of lines 732-733, each [ratemap, exc, ids], up
\* to the first that raises
DirectionalTuningCurve1D_restricts(b, a, passes) ==
        IF Len(passes) < 3 \/ passes[3].exc # None THEN <<>>
        ELSE
          LET minpk  == Opt(a.min_peakfiringrate, DefaultMinPeakFiringRate)
              maxavg == Opt(a.max_avgfiringrate, DefaultMaxAvgFiringRate)
              l2r == restrict_units(b.unit_ids, passes[1].ratemap,
                                    minpk, maxavg, a.unimodal)
              r2l == restrict_units(b.unit_ids, passes[2].ratemap,
                                    minpk, maxavg, a.unimodal)
              l2r_call == [ratemap |-> passes[1].ratemap,
                           exc |-> l2r.exc, ids |-> l2r.ids]
              r2l_call == [ratemap |-> passes[2].ratemap,
                           exc |-> r2l.exc, ids |-> r2l.ids]
          IN  IF l2r.exc # None THEN <<l2r_call>>
              ELSE <<l2r_call, r2l_call>>

\* DirectionalTuningCurve1D.__init__(*, bst_l2r, bst_r2l, bst_combined, ...)
DirectionalTuningCurve1D_init(b, a, passes, calls) ==
    IF a.empty THEN [Blank EXCEPT !.cls = "DirectionalTuningCurve1D"]
    ELSE IF a.n_extern = {} THEN Raise("NotImplementedError")
    ELSE IF trans_func_attr(a.transform_func) = "unset"
    THEN Raise("AttributeError")
    ELSE
          IF passes[Len(passes)].exc # None
          THEN Raise(passes[Len(passes)].exc)
          ELSE IF calls[Len(calls)].exc # None
          THEN Raise(calls[Len(calls)].exc)
          ELSE
            LET l2r_unit_ids      == calls[1].ids
                r2l_unit_ids      == calls[2].ids
                common_unit_ids   == r2l_unit_ids \cap l2r_unit_ids
                l2r_only_unit_ids == l2r_unit_ids \ common_unit_ids
                r2l_only_unit_ids == r2l_unit_ids \ common_unit_ids
            IN  [Blank EXCEPT
                   !.kind = "curve",
                   !.cls = "DirectionalTuningCurve1D",
                   !.ratemap = [u \in 1..Len(b.unit_ids) |->
                      IF b.unit_ids[u] \in r2l_only_unit_ids
                      THEN passes[2].ratemap[u]
                      ELSE IF b.unit_ids[u] \in l2r_only_unit_ids
                      THEN passes[1].ratemap[u]
                      ELSE passes[3].ratemap[u]],
                   !.occupancy = passes[3].occupancy,
                   !.bins = bins_of(a),
                   !.unit_ids = b.unit_ids,
                   !.unit_labels = b.unit_labels,
                   !.unit_tags = b.unit_tags,
                   !.unit_ids_l2r = l2r_only_unit_ids,
                   !.unit_ids_r2l = r2l_only_unit_ids]

(***************************************************************************)
(* Spec: a data set is recorded time bin by time bin, then one curve is    *)
(* constructed from it.                                                    *)
(***************************************************************************)
NoCall == [op |-> "none"]

\* (n_extern, extmin, extmax) a caller passes: two and four bins on [0, 4]
BinSpecs == {<<{2}, 0, 4>>, <<{4}, 0, 4>>, <<{}, 0, 4>>}

BaseArgs ==
    [op |-> "TuningCurve1D", given |-> TRUE, empty |-> FALSE,
     n_extern |-> {2}, extmin |-> 0, extmax |-> 4,
     minbgrate |-> {}, transform_func |-> None,
     min_peakfiringrate |-> {}, max_avgfiringrate |-> {}, unimodal |-> FALSE]

ConstructArgs ==
    {[BaseArgs EXCEPT !.op = c, !.n_extern = bs[1], !.extmin = bs[2],
                      !.extmax = bs[3], !.minbgrate = mb,
                      !.transform_func = tf] :
        c \in {"TuningCurve1D", "DirectionalTuningCurve1D"},
        bs \in BinSpecs, mb \in {{}, {<<1, 2>>}}, tf \in {None, "Shift"}}
    \cup {[BaseArgs EXCEPT !.op = c, !.empty = TRUE] :
        c \in {"TuningCurve1D", "DirectionalTuningCurve1D"}}
    \cup {[BaseArgs EXCEPT !.given = FALSE, !.empty = e] : e \in BOOLEAN}
    \cup {[BaseArgs EXCEPT !.op = "DirectionalTuningCurve1D",
                           !.unimodal = TRUE]}

Init ==
    /\ bst \in [unit_ids : {UNIT_IDS}, unit_labels : {UNIT_LABELS},
                unit_tags : {UNIT_TAGS}, samples : {<<>>}, ds : DsChoices]
    /\ call = NoCall
    /\ tc = Blank
    /\ out = Blank
    /\ warned = 0
    /\ hist = NoTrace
    /\ heap = NoHeap

\* the experiment yields one more time bin
Record ==
    /\ call = NoCall
    /\ Len(bst.samples) < MaxT
    /\ \E s \in Samples : bst' = [bst EXCEPT !.samples = Append(@, s)]
    /\ UNCHANGED <<call, tc, out, warned, hist, heap>>

ConstructTuningCurve1D ==
    /\ call = NoCall
    /\ \E a \in ConstructArgs :
          /\ a.op = "TuningCurve1D"
          /\ call' = a
          /\ \E passes \in {TuningCurve1D_passes(bst, a)} :
                /\ hist' = [passes |-> passes, restrict |-> <<>>]
                /\ tc' = TuningCurve1D_init(bst, a, passes)
    /\ UNCHANGED <<bst, out, warned, heap>>

ConstructDirectionalTuningCurve1D ==
    /\ call = NoCall
    /\ \E a \in ConstructArgs :
          /\ a.op = "DirectionalTuningCurve1D"
          /\ call' = a
          /\ \E passes \in {DirectionalTuningCurve1D_passes(bst, a)} :
             \E calls \in {DirectionalTuningCurve1D_restricts(bst, a, passes)} :
                /\ hist' = [passes |-> passes, restrict |-> calls]
                /\ tc' = DirectionalTuningCurve1D_init(bst, a, passes, calls)
    /\ UNCHANGED <<bst, out, warned, heap>>

Next ==
    \/ Record
    \/ ConstructTuningCurve1D
    \/ ConstructDirectionalTuningCurve1D

Spec == Init /\ [][Next]_vars

(***************************************************************************)
(* Properties of construction (Spec)                                       *)
(***************************************************************************)
\* the call constructed a curve of class c and reached the pipeline with
\* the default (identity) transform
Estimating(c) ==
    /\ call.op = c
    /\ call.given
    /\ ~call.empty
    /\ call.n_extern # {}
    /\ call.transform_func = None

Xs == extern_asarray(bst.samples)

\* at least one time bin, and every correlate sample within [extmin, extmax]
InRange ==
    /\ Len(Xs) > 0
    /\ \A t \in 1..Len(Xs) : call.extmin <= Xs[t] /\ Xs[t] <= call.extmax

\* the units of a ratemap whose peak rate exceeds the minimum peak rate and
\* whose mean rate is below the maximum average rate
Retained(ratemap) ==
    {bst.unit_ids[u] : u \in
        {v \in 1..Len(ratemap) :
            /\ RLt(Opt(call.min_peakfiringrate, DefaultMinPeakFiringRate),
                   RowMax(ratemap[v]))
            /\ RLt(RowMean(ratemap[v]),
                   Opt(call.max_avgfiringrate, DefaultMaxAvgFiringRate))}}

\* C1: whenever the three passes of a DirectionalTuningCurve1D construction
\* succeed, the construction yields a curve in which the row of a unit
\* retained only left-to-right is its left-to-right row, the row of a unit
\* retained only right-to-left is its right-to-left row, every other row is
\* the combined row, and unit_ids_l2r / unit_ids_r2l are exactly the units
\* overridden by each direction.
C1_Reconciliation ==
    ( /\ Estimating("DirectionalTuningCurve1D")
      /\ InRange
      /\ ~call.unimodal
      /\ Len(hist.passes) = 3
      /\ hist.passes[3].exc = None )
    => LET l2r == Retained(hist.passes[1].ratemap)
           r2l == Retained(hist.passes[2].ratemap)
       IN  /\ tc.kind = "curve"
           /\ tc.unit_ids_l2r = l2r \ r2l
           /\ tc.unit_ids_r2l = r2l \ l2r
           /\ \A u \in 1..Len(tc.unit_ids) :
                tc.ratemap[u] =
                    IF tc.unit_ids[u] \in l2r \ r2l THEN hist.passes[1].ratemap[u]
                    ELSE IF tc.unit_ids[u] \in r2l \ l2r
                    THEN hist.passes[2].ratemap[u]
                    ELSE hist.passes[3].ratemap[u]

\* C2: every restrict_units call returns exactly the ids of the units whose
\* row maximum is above min_peakfiringrate and whose row mean is below
\* max_avgfiringrate, whatever their number; with the unimodal flag set it
\* signals NotImplementedError.
C2_RestrictUnits ==
    (Estimating("DirectionalTuningCurve1D") /\ InRange) =>
      \A i \in 1..Len(hist.restrict) :
        IF call.unimodal
        THEN hist.restrict[i].exc = "NotImplementedError"
        ELSE /\ hist.restrict[i].exc = None
             /\ hist.restrict[i].ids = Retained(hist.restrict[i].ratemap)

\* C3: a TuningCurve1D construction with a correlate sample outside
\* [extmin, extmax], above or below, fails with ValueError.
C3_RangeViolationFatal ==
    ( /\ Estimating("TuningCurve1D")
      /\ \E t \in 1..Len(Xs) : Xs[t] < call.extmin \/ Xs[t] > call.extmax )
    => tc.kind = "raise" /\ tc.exc = "ValueError"

\* C4: after a successful construction of either class every ratemap entry
\* is at least minbgrate, the ratemap has n_units rows of n_bins entries,
\* and n_bins = len(bins) - 1 = n_extern.
C4_FloorInvariant ==
    tc.kind = "curve" =>
        /\ Len(tc.ratemap) = n_units(tc)
        /\ n_units(tc) = Len(bst.unit_ids)
        /\ n_bins(tc) = Len(tc.bins) - 1
        /\ n_bins(tc) = Opt(call.n_extern, 0)
        /\ \A u \in 1..Len(tc.ratemap) :
             /\ Len(tc.ratemap[u]) = n_bins(tc)
             /\ \A b \in 1..Len(tc.ratemap[u]) :
                  ~RLt(tc.ratemap[u][b], Opt(call.minbgrate, DefaultMinBgRate))

\* a directional curve with a row taken from the left-to-right pass, an
\* entry raised to the floor in a bin visited twice, and an entry above it
C4_Witness ==
    /\ tc.kind = "curve"
    /\ tc.cls = "DirectionalTuningCurve1D"
    /\ tc.unit_ids_l2r # {}
    /\ \E u \in 1..Len(tc.ratemap) : \E b, c \in 1..Len(tc.ratemap[u]) :
          /\ tc.ratemap[u][b] = Opt(call.minbgrate, DefaultMinBgRate)
          /\ tc.occupancy[b] = 2
          /\ RLt(Opt(call.minbgrate, DefaultMinBgRate), tc.ratemap[u][c])

\* C6: a TuningCurve1D construction with a correlate sample exactly at
\* extmax fails with ValueError, although the occupancy histogram computed
\* before it counted the samples of the last bin, the one at extmax included.
C6_ExtmaxBoundary ==
    ( /\ Estimating("TuningCurve1D")
      /\ \E t \in 1..Len(Xs) : Xs[t] = call.extmax )
    => /\ tc.kind = "raise"
       /\ tc.exc = "ValueError"
       /\ LET n    == Opt(call.n_extern, 0)
              last == call.extmax - (call.extmax - call.extmin) \div n
          IN  hist.passes[1].occupancy[n] =
                Cardinality({t \in 1..Len(Xs) :
                                last <= Xs[t] /\ Xs[t] <= call.extmax})

C6_Witness ==
    /\ Estimating("TuningCurve1D")
    /\ \E t \in 1..Len(Xs) : Xs[t] = call.extmax
    /\ \A t \in 1..Len(Xs) : Xs[t] = call.extmax \/ Xs[t] = call.extmin + 1
    /\ Len(Xs) = 2
    /\ tc.exc = "ValueError"
    /\ hist.passes[1].occupancy[Opt(call.n_extern, 0)] >= 1

\* C10: a construction given a transform_func succeeds whenever the
\* transformed correlate values are acceptable, and its occupancy is the
\* histogram of the transformed values.
C10_PluggableTransform ==
    ( /\ call.op = "TuningCurve1D"
      /\ call.given
      /\ ~call.empty
      /\ call.n_extern # {}
      /\ call.transform_func = "Shift"
      /\ Len(Xs) > 0
      /\ \A t \in 1..Len(Xs) :
            /\ call.extmin < Shift(Xs)[t]
            /\ ~OutOfRange(Digitize(Shift(Xs)[t], bins_of(call)),
                           Opt(call.n_extern, 0)) )
    => /\ tc.kind = "curve"
       /\ tc.occupancy = Histogram(Shift(Xs), tc.bins)

\* the spikes of unit u in the time bins from position from on that the
\* occupancy histogram counts in bin b
RECURSIVE SpikesWhereOccupied(_, _, _, _, _)
SpikesWhereOccupied(samples, bins, u, b, from) ==
    IF from > Len(samples) THEN 0
    ELSE (IF HistBin(samples[from].x, bins) = b
            THEN samples[from].counts[u] ELSE 0)
         + SpikesWhereOccupied(samples, bins, u, b, from + 1)

\* C15: in a successful TuningCurve1D construction from samples within
\* [extmin, extmax], every ratemap entry (u, b) is the rate made of the
\* spikes of exactly those time bins that the occupancy histogram counts in
\* bin b, samples on extmin or on an interior bin edge included; a bin with
\* zero occupancy holds no spikes.
C15_BinAlignment ==
    ( /\ Estimating("TuningCurve1D")
      /\ InRange
      /\ tc.kind = "curve" )
    => /\ tc.occupancy = Histogram(Xs, tc.bins)
       /\ tc.ratemap =
            normalize_and_floor(
                counts_to_hz(
                    [u \in 1..Len(bst.unit_ids) |-> [b \in 1..n_bins(tc) |->
                        SpikesWhereOccupied(bst.samples, tc.bins, u, b, 1)]],
                    bst.ds),
                tc.occupancy, Opt(call.minbgrate, DefaultMinBgRate))

(***************************************************************************)
(* SpecNorm: the normalization and floor of lines 86-90 as a function of   *)
(* the accumulated spike counts, the occupancy, ds and minbgrate.          *)
(* call holds the inputs; Normalize applies the code to them.              *)
(***************************************************************************)
\* occupancy counts per bin: an unvisited bin, one visit, ten visits
OccVals == {0, 1, 10}

\* accumulated spike counts of one unit over four bins
CountRows == {<<0, 5, 5, 0>>, <<2, 2, 2, 2>>, <<0, 0, 0, 0>>, <<1, 0, 3, 7>>}

NormInputs ==
    [op : {"normalize_pending"},
     counts : [1..3 -> CountRows],
     occupancy : [1..4 -> OccVals],
     ds : DsChoices,
     minbgrate : {{}, {<<1, 2>>}}]

InitNorm ==
    /\ call \in NormInputs
    /\ bst = [unit_ids |-> <<11, 22, 33>>, unit_labels |-> <<"a", "b", "c">>,
              unit_tags |-> <<"ta", "tb", "tc">>, samples |-> <<>>,
              ds |-> call.ds]
    /\ tc = Blank
    /\ out = Blank
    /\ warned = 0
    /\ hist = NoTrace
    /\ heap = NoHeap

\* lines 86-90 of __init__ once the counts are accumulated
Normalize ==
    /\ call.op = "normalize_pending"
    /\ call' = [call EXCEPT !.op = "normalize"]
    /\ tc' = [Blank EXCEPT
                !.kind = "curve", !.cls = "TuningCurve1D",
                !.occupancy = call.occupancy,
                !.unit_ids = bst.unit_ids,
                !.unit_labels = bst.unit_labels,
                !.unit_tags = bst.unit_tags,
                !.ratemap = normalize_and_floor(
                                counts_to_hz(call.counts, call.ds),
                                call.occupancy,
                                Opt(call.minbgrate, DefaultMinBgRate))]
    /\ UNCHANGED <<bst, out, warned, hist, heap>>

NextNorm == Normalize

SpecNorm == InitNorm /\ [][NextNorm]_vars

\* C5: every constructed entry is max(minbgrate, S[u,b] / ds / d[b]) with
\* d[b] = occupancy[b], or 1 for a bin of zero occupancy; it is a finite
\* number; and with ds = 1, occupancy [10,10,10,10] and spike sums
\* [[0,5,5,0],[2,2,2,2],[0,0,0,0]] the rows are [[0.01,0.5,0.5,0.01],
\* [0.2,0.2,0.2,0.2],[0.01,0.01,0.01,0.01]].
C5_OccupancyNormalization ==
    call.op = "normalize" =>
      /\ \A u \in 1..Len(call.counts) : \A b \in 1..Len(call.occupancy) :
           LET d     == IF call.occupancy[b] > 0 THEN call.occupancy[b] ELSE 1
               minbg == Opt(call.minbgrate, DefaultMinBgRate)
               r     == tc.ratemap[u][b]
           IN  /\ r[2] > 0
               \* r = S / ds / d when that is at least minbgrate
               /\ (call.counts[u][b] * call.ds[2] * minbg[2]
                        >= minbg[1] * call.ds[1] * d)
                    => r[1] * call.ds[1] * d
                         = call.counts[u][b] * call.ds[2] * r[2]
               /\ (call.counts[u][b] * call.ds[2] * minbg[2]
                        < minbg[1] * call.ds[1] * d)
                    => r = minbg
      /\ ( /\ call.counts = <<<<0, 5, 5, 0>>, <<2, 2, 2, 2>>, <<0, 0, 0, 0>>>>
           /\ call.occupancy = <<10, 10, 10, 10>>
           /\ call.ds = <<1, 1>>
           /\ call.minbgrate = {} )
         => tc.ratemap =
              << <<<<1, 100>>, <<1, 2>>, <<1, 2>>, <<1, 100>>>>,
                 <<<<1, 5>>, <<1, 5>>, <<1, 5>>, <<1, 5>>>>,
                 <<<<1, 100>>, <<1, 100>>, <<1, 100>>, <<1, 100>>>> >>

C5_Witness ==
    /\ call.op = "normalize"
    /\ call.counts = <<<<0, 5, 5, 0>>, <<2, 2, 2, 2>>, <<0, 0, 0, 0>>>>
    /\ call.occupancy = <<10, 10, 10, 10>>
    /\ call.ds = <<1, 1>>
    /\ call.minbgrate = {}
    /\ tc.ratemap[1] = <<<<1, 100>>, <<1, 2>>, <<1, 2>>, <<1, 100>>>>
    /\ tc.ratemap[2][1] = <<1, 5>>

(***************************************************************************)
(* Unit-indexed operations: subsetting by unit id and reordering           *)
(***************************************************************************)
\* list.index(x) as a 0-based position (x is always present where used)
ListIndex(list, x) ==
    (CHOOSE i \in 1..Len(list) :
        list[i] = x /\ \A j \in 1..(i - 1) : list[j] # x) - 1

\* a, b = b, a on the 0-based positions frm and to of a list
SwapItems(list, frm, to) ==
    [list EXCEPT ![frm + 1] = list[to + 1], ![to + 1] = list[frm + 1]]

\* utils.swap_rows(arr, frm, to): exchanges two rows of the array in place
swap_rows(arr, frm, to) == SwapItems(arr, frm, to)

\* the reordering loop without the bookkeeping of oldorder
RECURSIVE ReorderLoopStale(_, _, _)
ReorderLoopStale(st, neworder, oi) ==
    IF oi >= Len(neworder) THEN st
    ELSE LET frm == ListIndex(st.oldorder, neworder[oi + 1])
             to  == oi
         IN  ReorderLoopStale(
                [st EXCEPT !.ratemap = swap_rows(@, frm, to),
                           !.unit_ids = SwapItems(@, frm, to),
                           !.unit_labels = SwapItems(@, frm, to)],
                neworder, oi + 1)

\* for oi, ni in enumerate(neworder): ... (lines 546-554 and 577-585), from
\* the 0-based step oi on; st is [ratemap, unit_ids, unit_labels, oldorder]
RECURSIVE reorder_loop(_, _, _)
reorder_loop(st, neworder, oi) ==
    IF oi >= Len(neworder) THEN st
    ELSE LET frm == ListIndex(st.oldorder, neworder[oi + 1])
             to  == oi
         IN  reorder_loop(
                [ratemap |-> swap_rows(st.ratemap, frm, to),
                 unit_ids |-> SwapItems(st.unit_ids, frm, to),
                 unit_labels |-> SwapItems(st.unit_labels, frm, to),
                 oldorder |-> SwapItems(st.oldorder, frm, to)],
                neworder, oi + 1)

\* the curve c with its rows, ids and labels moved by the loop; the unit
\* tags are not touched ("TODO: re-build unit tags")
reordered(c, neworder) ==
    LET st == reorder_loop(
                [ratemap |-> c.ratemap, unit_ids |-> c.unit_ids,
                 unit_labels |-> c.unit_labels,
                 oldorder |-> [i \in 1..Len(neworder) |-> i - 1]],
                neworder, 0)
    IN  [c EXCEPT !.ratemap = st.ratemap, !.unit_ids = st.unit_ids,
                  !.unit_labels = st.unit_labels]

\* np.argmax of a row: the 0-based position of the first maximum
ArgMax(row) ==
    (CHOOSE i \in 1..Len(row) :
        /\ \A j \in 1..Len(row) : ~RLt(row[i], row[j])
        /\ \A j \in 1..(i - 1) : RLt(row[j], row[i])) - 1

\* ndarray.argsort() of a short key list (insertion sort: ties keep their
\* order), as 0-based positions
ArgSort(keys) ==
    LET Before(v, u) == keys[v] < keys[u] \/ (keys[v] = keys[u] /\ v < u)
    IN  [k \in 1..Len(keys) |->
            (CHOOSE u \in 1..Len(keys) :
                Cardinality({v \in 1..Len(keys) : Before(v, u)}) = k - 1) - 1]

\* _get_peak_firing_order_idx
get_peak_firing_order_idx(c) ==
    ArgSort([u \in 1..Len(c.ratemap) |-> ArgMax(c.ratemap[u])])

\* get_peak_firing_order_ids
get_peak_firing_order_ids(c) ==
    LET peakorder == get_peak_firing_order_idx(c)
    IN  [k \in 1..Len(peakorder) |-> c.unit_ids[peakorder[k] + 1]]

\* the positions _reorder_units_by_idx moves by: neworder, or the peak
\* firing order when it is None
idx_order(c, neworder) ==
    Opt(neworder, get_peak_firing_order_idx(c))

\* the positions reorder_units_by_ids moves by (line 575)
ids_order(c, neworder) ==
    LET ids == Opt(neworder, get_peak_firing_order_ids(c))
    IN  [k \in 1..Len(ids) |-> ListIndex(c.unit_ids, ids[k])]

\* _reorder_units_by_idx: the curve it returns (self itself when inplace)
reorder_units_by_idx(c, neworder) == reordered(c, idx_order(c, neworder))

\* reorder_units_by_ids: the curve it returns (self itself when inplace)
reorder_units_by_ids(c, neworder) == reordered(c, ids_order(c, neworder))

\* the positions of the requested units that exist, in request order
RECURSIVE unit_subset_ids(_, _)
unit_subset_ids(unit_ids, unit_list) ==
    IF unit_list = <<>> THEN <<>>
    ELSE IF \E i \in 1..Len(unit_ids) : unit_ids[i] = Head(unit_list)
    THEN <<ListIndex(unit_ids, Head(unit_list))>>
            \o unit_subset_ids(unit_ids, Tail(unit_list))
    ELSE unit_subset_ids(unit_ids, Tail(unit_list))

\* _unit_subset: [curve, warned]; warned counts the warnings issued
unit_subset(c, unit_list) ==
    LET sel     == unit_subset_ids(c.unit_ids, unit_list)
        missing == Cardinality({k \in 1..Len(unit_list) :
                        \A i \in 1..Len(c.unit_ids) :
                            c.unit_ids[i] # unit_list[k]})
    IN  IF Len(sel) = 0
        THEN \* return TuningCurve1D(empty=True)
             \* (called without bst and extern)
             [curve |-> TuningCurve1D_init(
                            Blank, [BaseArgs EXCEPT !.given = FALSE,
                                                    !.empty = TRUE], <<>>),
              warned |-> missing + 1]
        ELSE [curve |-> [c EXCEPT
                  !.unit_ids = [k \in 1..Len(sel) |-> c.unit_ids[sel[k] + 1]],
                  !.unit_labels = [k \in 1..Len(sel) |-> c.unit_labels[sel[k] + 1]],
                  !.ratemap = [k \in 1..Len(sel) |-> c.ratemap[sel[k] + 1]]],
              warned |-> missing]

\* the 0-based positions an index selects on an axis of length n, or
\* <<-1>> when numpy raises IndexError; idx is [kind |-> "int", i |-> i],
\* [kind |-> "slice", start |-> a, stop |-> b] or [kind |-> "list",
\* items |-> <<...>>]; an int arrives as the one-element list [i]
positions_of(idx, n) ==
    LET Wrap(i) == IF i < 0 THEN i + n ELSE i
        Ok(i)   == (-n) <= i /\ i < n
        items   == IF idx.kind = "int" THEN <<idx.i>> ELSE idx.items
    IN  IF idx.kind = "slice"
        THEN LET lo == IF idx.start > n THEN n ELSE idx.start
                 hi == IF idx.stop > n THEN n ELSE idx.stop
             IN  [k \in 1..(IF hi > lo THEN hi - lo ELSE 0) |-> lo + k - 1]
        ELSE IF \E k \in 1..Len(items) : ~Ok(items[k]) THEN <<-1>>
        ELSE [k \in 1..Len(items) |-> Wrap(items[k])]

\* __getitem__: an empty curve returns itself; otherwise a shallow copy with
\* the selected rows, ids and labels; any exception becomes TypeError
getitem(c, idx) ==
    IF isempty(c) THEN c
    ELSE LET sel == positions_of(idx, Len(c.unit_ids))
         IN  IF sel = <<-1>> THEN Raise("TypeError")
             ELSE [c EXCEPT
                    !.ratemap = [k \in 1..Len(sel) |-> c.ratemap[sel[k] + 1]],
                    !.unit_ids = [k \in 1..Len(sel) |-> c.unit_ids[sel[k] + 1]],
                    !.unit_labels =
                        [k \in 1..Len(sel) |-> c.unit_labels[sel[k] + 1]]]

\* __next__ at the iterator position index: StopIteration past the last
\* unit, otherwise a shallow copy holding one unit.  Its ratemap is the
\* 1-d row and its unit_ids and unit_labels are scalars: kind "unit", with
\* the row, the id and the label each shown as the only item of a list
iter_next(c, index) ==
    IF index > n_units(c) - 1 THEN Raise("StopIteration")
    ELSE [c EXCEPT !.kind = "unit",
                   !.ratemap = <<c.ratemap[index + 1]>>,
                   !.unit_ids = <<c.unit_ids[index + 1]>>,
                   !.unit_labels = <<c.unit_labels[index + 1]>>]

\* the unit_ids setter: the curve after self.unit_ids = val, or the raise
unit_ids_setter(c, val) ==
    IF Len(val) # n_units(c) THEN Raise("TypeError")
    ELSE IF Cardinality({val[k] : k \in 1..Len(val)}) < Len(val)
    THEN Raise("TypeError")
    ELSE [c EXCEPT !.unit_ids = val]

\* np.max(ratemap): the largest entry of the whole array
ArrayMax(arr) ==
    LET m == {RowMax(arr[u]) : u \in 1..Len(arr)}
    IN  CHOOSE x \in m : \A y \in m : ~RLt(x, y)

\* every row divided by the largest entry of the whole array
NormalizeByArrayMax(c) ==
    [c EXCEPT !.ratemap =
        [u \in 1..Len(c.ratemap) |-> [b \in 1..Len(c.ratemap[u]) |->
            RDiv(c.ratemap[u][b], ArrayMax(c.ratemap))]]]

\* normalize: the curve it returns (out, which is self when inplace).  With
\* more than one unit every row is divided by its own maximum; otherwise the
\* array is divided by its largest entry (np.max of an array without
\* entries raises ValueError)
normalize(c) ==
    IF n_units(c) > 1
    THEN [c EXCEPT !.ratemap =
            [u \in 1..Len(c.ratemap) |-> [b \in 1..Len(c.ratemap[u]) |->
                RDiv(c.ratemap[u][b], RowMax(c.ratemap[u]))]]]
    ELSE IF Len(c.ratemap) = 0 THEN Raise("ValueError")
    ELSE [c EXCEPT !.ratemap =
            [u \in 1..Len(c.ratemap) |-> [b \in 1..Len(c.ratemap[u]) |->
                RDiv(c.ratemap[u][b], ArrayMax(c.ratemap))]]]

(***************************************************************************)
(* SpecUnits: a three-unit curve is constructed, then subsetted and        *)
(* reordered, one call at a time; after a call the caller goes on with the *)
(* curve it returned (Rebind).                                             *)
(* hist keeps, for inspection: pre, the receiver as it was before the last *)
(* call; base, the curve the current chain of reorderings started from;    *)
(* tcvia and outvia, the position orders that led from base to tc and to   *)
(* out; depth, the number of calls that led from the constructed curve to  *)
(* tc.                                                                     *)
(***************************************************************************)
\* longest chain of calls followed from one constructed curve, each made on
\* the curve the one before it returned or changed in place
MaxChain == 2

UNIT_IDS3 == <<11, 22, 33>>
UNIT_LABELS3 == <<"a", "b", "c">>
UNIT_TAGS3 == <<"ta", "tb", "tc">>

\* data sets of two time bins: one at extmin with any spike counts, and one
\* inside the first bin in which units 11 and 33 fire once
UnitsBsts ==
    {[unit_ids |-> UNIT_IDS3, unit_labels |-> UNIT_LABELS3,
      unit_tags |-> UNIT_TAGS3, ds |-> <<1, 10>>,
      samples |-> <<[x |-> 0, dir |-> "l2r", counts |-> c1],
                    [x |-> 1, dir |-> "l2r", counts |-> <<1, 0, 1>>]>>] :
        c1 \in [1..3 -> 0..MaxCount]}

\* the permutations of 0..n-1, as lists
Perms(n) ==
    {p \in [1..n -> 0..(n - 1)] : \A i, j \in 1..n : p[i] = p[j] => i = j}

\* the orders of the ids of a curve, as lists
IdPerms(c) ==
    {[k \in 1..Len(p) |-> c.unit_ids[p[k] + 1]] : p \in Perms(Len(c.unit_ids))}

\* unit id 44 is in no curve
IdLists ==
    {<<>>} \cup {<<a>> : a \in {11, 22, 33, 44}}
           \cup {<<a, b>> : a, b \in {11, 22, 33, 44}}

\* the list q with q[p[i]] = i
Inverse(p) == [k \in 1..Len(p) |-> ListIndex(p, k - 1)]

\* no call is under inspection: the next one may be made
Idle == call.op \in {"none", "rebind", "unit_ids"}

\* the caller may make one more call on the curve it holds
MayCall == Idle /\ hist.depth < MaxChain

\* the indices a caller subscripts a curve with: positions, slices and lists
\* of positions (3 is past the end of every curve, -1 is the last unit)
Indices ==
    {[kind |-> "int", i |-> i] : i \in {-1, 0, 2, 3}}
    \cup {[kind |-> "slice", start |-> sl[1], stop |-> sl[2]] :
            sl \in {<<0, 2>>, <<1, 3>>, <<1, 1>>}}
    \cup {[kind |-> "list", items |-> l] :
            l \in {<<0, 1>>, <<2, 0>>, <<1, 1>>, <<0, 3>>}}

\* the lists a caller assigns to unit_ids
NewIds ==
    {<<44, 22, 33>>, <<22, 11, 33>>, <<11, 11, 33>>, <<44, 11>>, <<11, 11>>,
     <<44>>}

InitUnits ==
    /\ bst \in UnitsBsts
    /\ call = NoCall
    /\ \E passes \in {TuningCurve1D_passes(bst, BaseArgs)} :
          tc = TuningCurve1D_init(bst, BaseArgs, passes)
    /\ out = Blank
    /\ warned = 0
    /\ hist = [base |-> tc, tcvia |-> <<>>, outvia |-> <<>>, pre |-> tc,
               depth |-> 0]
    /\ heap = NoHeap

UnitSubset ==
    /\ MayCall
    /\ tc.kind = "curve"
    /\ \E unit_list \in IdLists :
       \E r \in {unit_subset(tc, unit_list)} :
          /\ call' = [op |-> "_unit_subset", unit_list |-> unit_list]
          /\ out' = r.curve
          /\ warned' = r.warned
    /\ hist' = [hist EXCEPT !.pre = tc, !.outvia = <<>>]
    /\ UNCHANGED <<bst, tc, heap>>

ReorderUnitsByIdx ==
    /\ MayCall
    /\ tc.kind = "curve"
    /\ \E neworder \in {{}} \cup {{p} : p \in Perms(Len(tc.unit_ids))},
          inplace \in BOOLEAN :
          /\ call' = [op |-> "_reorder_units_by_idx", neworder |-> neworder,
                      inplace |-> inplace]
          /\ out' = reorder_units_by_idx(tc, neworder)
          /\ tc' = IF inplace THEN out' ELSE tc
          /\ hist' = [hist EXCEPT
                        !.pre = tc,
                        !.outvia = Append(hist.tcvia, idx_order(tc, neworder)),
                        !.tcvia = IF inplace
                                  THEN Append(@, idx_order(tc, neworder))
                                  ELSE @,
                        !.depth = IF inplace THEN @ + 1 ELSE @]
    /\ warned' = 0
    /\ UNCHANGED <<bst, heap>>

ReorderUnitsByIds ==
    /\ MayCall
    /\ tc.kind = "curve"
    /\ \E neworder \in {{}} \cup {{p} : p \in IdPerms(tc)},
          inplace \in BOOLEAN :
          /\ call' = [op |-> "reorder_units_by_ids", neworder |-> neworder,
                      inplace |-> inplace]
          /\ out' = reorder_units_by_ids(tc, neworder)
          /\ tc' = IF inplace THEN out' ELSE tc
          /\ hist' = [hist EXCEPT
                        !.pre = tc,
                        !.outvia = Append(hist.tcvia, ids_order(tc, neworder)),
                        !.tcvia = IF inplace
                                  THEN Append(@, ids_order(tc, neworder))
                                  ELSE @,
                        !.depth = IF inplace THEN @ + 1 ELSE @]
    /\ warned' = 0
    /\ UNCHANGED <<bst, heap>>

NormalizeCall ==
    /\ MayCall
    /\ tc.kind = "curve"
    /\ \E inplace \in BOOLEAN :
          /\ call' = [op |-> "normalize", inplace |-> inplace]
          /\ out' = normalize(tc)
          /\ tc' = IF inplace /\ out'.kind = "curve" THEN out' ELSE tc
          /\ hist' = IF inplace /\ out'.kind = "curve"
                     THEN [base |-> out', tcvia |-> <<>>, outvia |-> <<>>,
                           pre |-> tc, depth |-> hist.depth + 1]
                     ELSE [hist EXCEPT !.pre = tc, !.outvia = <<>>]
    /\ warned' = 0
    /\ UNCHANGED <<bst, heap>>

GetItem ==
    /\ MayCall
    /\ tc.kind = "curve"
    /\ \E idx \in Indices :
          /\ call' = [op |-> "__getitem__", idx |-> idx]
          /\ out' = getitem(tc, idx)
    /\ hist' = [hist EXCEPT !.pre = tc, !.outvia = <<>>]
    /\ warned' = 0
    /\ UNCHANGED <<bst, tc, heap>>

\* __iter__: the iterator position is set to zero and self is returned
Iter ==
    /\ MayCall
    /\ tc.kind = "curve"
    /\ call' = [op |-> "__iter__", index |-> 0]
    /\ out' = tc
    /\ hist' = [hist EXCEPT !.pre = tc, !.outvia = <<>>]
    /\ warned' = 0
    /\ UNCHANGED <<bst, tc, heap>>

\* __next__: one more step of the iteration started by __iter__
IterNext ==
    /\ call.op \in {"__iter__", "__next__"}
    /\ \E r \in {iter_next(tc, call.index)} :
          /\ out' = r
          /\ call' = [op |-> "__next__",
                      index |-> IF r.kind = "raise" THEN call.index
                                ELSE call.index + 1]
    /\ UNCHANGED <<bst, tc, warned, hist, heap>>

\* self.unit_ids = val
SetUnitIds ==
    /\ MayCall
    /\ tc.kind = "curve"
    /\ \E val \in NewIds :
       \E r \in {unit_ids_setter(tc, val)} :
          /\ call' = [op |-> "unit_ids", val |-> val]
          /\ out' = IF r.kind = "raise" THEN r ELSE Blank
          /\ tc' = IF r.kind = "raise" THEN tc ELSE r
          /\ hist' = IF r.kind = "raise"
                     THEN [hist EXCEPT !.pre = tc, !.outvia = <<>>]
                     ELSE [base |-> r, tcvia |-> <<>>, outvia |-> <<>>,
                           pre |-> tc, depth |-> hist.depth + 1]
    /\ warned' = 0
    /\ UNCHANGED <<bst, heap>>

\* the caller goes on with the curve the last call returned
Rebind ==
    /\ ~Idle
    /\ out.kind = "curve"
    /\ tc' = out
    /\ hist' = IF call.op \in {"_reorder_units_by_idx", "reorder_units_by_ids"}
               THEN [hist EXCEPT !.tcvia = hist.outvia, !.depth = @ + 1]
               ELSE [base |-> out, tcvia |-> <<>>, outvia |-> <<>>, pre |-> out,
                     depth |-> hist.depth + 1]
    /\ call' = [op |-> "rebind"]
    /\ UNCHANGED <<bst, out, warned, heap>>

NextUnits ==
    \/ UnitSubset
    \/ ReorderUnitsByIdx
    \/ ReorderUnitsByIds
    \/ NormalizeCall
    \/ GetItem
    \/ Iter
    \/ IterNext
    \/ SetUnitIds
    \/ Rebind

SpecUnits == InitUnits /\ [][NextUnits]_vars

(***************************************************************************)
(* Properties of the unit-indexed operations (SpecUnits)                   *)
(***************************************************************************)
Reordering == call.op \in {"_reorder_units_by_idx", "reorder_units_by_ids"}

\* the position order the last reordering applied
LastOrder == hist.outvia[Len(hist.outvia)]

\* C7: _unit_subset with a list none of whose ids is in the curve warns and
\* returns an empty curve (isempty), and leaves the source curve unchanged.
C7_EmptySubset ==
    ( /\ call.op = "_unit_subset"
      /\ call.unit_list # <<>>
      /\ \A k \in 1..Len(call.unit_list) :
            \A i \in 1..Len(hist.pre.unit_ids) :
                hist.pre.unit_ids[i] # call.unit_list[k] )
    => /\ out.kind = "empty"
       /\ isempty(out)
       /\ warned >= 1
       /\ tc = hist.pre

\* C8: after a reordering of a freshly constructed curve by a given order,
\* the result's unit_ids are in the requested order and every unit's
\* ratemap row, label and tag sit at the position of its id; ids, labels
\* and tags keep length n_units.
C8_ReorderLockstep ==
    ( /\ Reordering
      /\ call.neworder # {}
      /\ hist.pre = hist.base
      /\ Len(hist.outvia) = 1 )
    => /\ Len(out.unit_ids) = n_units(hist.pre)
       /\ Len(out.unit_labels) = n_units(hist.pre)
       /\ Len(out.unit_tags) = n_units(hist.pre)
       /\ call.op = "reorder_units_by_ids"
            => out.unit_ids = Opt(call.neworder, <<>>)
       /\ \A k \in 1..Len(out.unit_ids) :
            /\ out.unit_ids[k] = hist.pre.unit_ids[LastOrder[k] + 1]
            /\ out.ratemap[k] = hist.pre.ratemap[LastOrder[k] + 1]
            /\ out.unit_labels[k] = hist.pre.unit_labels[LastOrder[k] + 1]
            /\ out.unit_tags[k] = hist.pre.unit_tags[LastOrder[k] + 1]

\* C9: reordering a curve by a permutation p of its positions and the
\* result by the inverse of p gives a curve whose unit_ids, unit_labels and
\* ratemap rows are in the original order.
C9_ReorderRoundTrip ==
    ( /\ Reordering
      /\ Len(hist.outvia) = 2
      /\ hist.outvia[1] \in Perms(Len(hist.base.unit_ids))
      /\ hist.outvia[2] = Inverse(hist.outvia[1]) )
    => /\ out.unit_ids = hist.base.unit_ids
       /\ out.unit_labels = hist.base.unit_labels
       /\ out.ratemap = hist.base.ratemap

\* a three-cycle, which is not its own inverse, applied to a curve with
\* three different rows and then undone by _reorder_units_by_idx
C9_Witness ==
    /\ call.op = "_reorder_units_by_idx"
    /\ hist.outvia = << <<1, 2, 0>>, <<2, 0, 1>> >>
    /\ hist.base.unit_ids = UNIT_IDS3
    /\ Cardinality({hist.base.ratemap[u] : u \in 1..3}) = 3
    /\ out.unit_ids = UNIT_IDS3
    /\ out.ratemap = hist.base.ratemap

\* the items of a list are pairwise different
Distinct(list) == \A i, j \in 1..Len(list) : list[i] = list[j] => i = j

\* C11: every curve reachable from a constructed curve with unique unit_ids
\* by indexing, id-list subsetting, reordering, iteration and the unit_ids
\* setter, the receiver and the curve returned alike, has pairwise different
\* unit_ids.
C11_UnitIdUniqueness ==
    /\ tc.kind \in {"curve", "unit"} => Distinct(tc.unit_ids)
    /\ out.kind \in {"curve", "unit"} => Distinct(out.unit_ids)

\* C13: normalize() divides the row of every unit whose peak rate is above
\* zero by that unit's own row maximum, so that the row's maximum is exactly
\* 1, for curves of several units and of one unit alike.
C13_NormalizePerUnitPeak ==
    (call.op = "normalize" /\ Len(hist.pre.ratemap) > 0)
    => /\ out.kind = "curve"
       /\ Len(out.ratemap) = Len(hist.pre.ratemap)
       /\ \A u \in 1..Len(hist.pre.ratemap) :
            RLt(RInt(0), RowMax(hist.pre.ratemap[u])) =>
                /\ RowMax(out.ratemap[u]) = RInt(1)
                /\ \A b \in 1..Len(hist.pre.ratemap[u]) :
                      out.ratemap[u][b] =
                        RDiv(hist.pre.ratemap[u][b], RowMax(hist.pre.ratemap[u]))

\* a curve of three units with three different peak rates was normalized
C13_Witness ==
    /\ call.op = "normalize"
    /\ n_units(hist.pre) = 3
    /\ Cardinality({RowMax(hist.pre.ratemap[u]) : u \in 1..3}) = 3
    /\ \A u \in 1..3 : RowMax(out.ratemap[u]) = RInt(1)
    /\ out.ratemap # hist.pre.ratemap

(***************************************************************************)
(* Objects and sharing.  heap.cells are the mutable arrays and lists       *)
(* (ratemap arrays, unit id lists, unit label lists), heap.objs the curve  *)
(* objects.  An object refers to the cell of its _ratemap, to the rows of  *)
(* that array its _ratemap shows (all of them, or those of a slice view),  *)
(* and to the cells of its _unit_ids and _unit_labels; rest holds its      *)
(* other attributes, which no operation changes in place.                  *)
(***************************************************************************)
\* the positions 0..n-1
Iota(n) == [k \in 1..n |-> k - 1]

\* obj._ratemap as an array
view_rows(h, ob) ==
    [k \in 1..Len(ob.rows) |-> h.cells[ob.ratemap][ob.rows[k] + 1]]

\* the curve the object at address i is, by value
deref(h, i) ==
    LET ob == h.objs[i]
    IN  [ob.rest EXCEPT !.ratemap = view_rows(h, ob),
                        !.unit_ids = h.cells[ob.unit_ids],
                        !.unit_labels = h.cells[ob.unit_labels]]

\* copy.copy(self): a new object (the last one) with the attributes of
\* self, arrays and lists shared
copy_copy(h, i) == [h EXCEPT !.objs = Append(@, h.objs[i])]

\* a copy that keeps the arrays and lists of self instead of copying them
CopySharing(h, i) == [h EXCEPT !.objs = Append(@, h.objs[i])]

\* copy.deepcopy(self): a new object (the last one) with arrays and lists of
\* its own
deepcopy(h, i) ==
    LET ob == h.objs[i]
        n  == Len(h.cells)
    IN  [objs |-> Append(h.objs,
                    [ob EXCEPT !.ratemap = n + 1,
                               !.rows = Iota(Len(ob.rows)),
                               !.unit_ids = n + 2,
                               !.unit_labels = n + 3]),
         cells |-> h.cells \o <<view_rows(h, ob), h.cells[ob.unit_ids],
                                h.cells[ob.unit_labels]>>]

\* obj._ratemap = arr, a new array
bind_ratemap(h, i, arr) ==
    [objs |-> [h.objs EXCEPT ![i] = [@ EXCEPT !.ratemap = Len(h.cells) + 1,
                                              !.rows = Iota(Len(arr))]],
     cells |-> Append(h.cells, arr)]

\* obj._ratemap = self.ratemap[slice, :], a view of the same array
bind_view(h, i, sel) ==
    [h EXCEPT !.objs = [@ EXCEPT ![i] = [@ EXCEPT !.rows =
        [k \in 1..Len(sel) |-> h.objs[i].rows[sel[k] + 1]]]]]

\* obj._unit_ids = ids; obj._unit_labels = labels, two new lists
bind_ids_labels(h, i, ids, labels) ==
    [objs |-> [h.objs EXCEPT ![i] = [@ EXCEPT !.unit_ids = Len(h.cells) + 1,
                                              !.unit_labels = Len(h.cells) + 2]],
     cells |-> h.cells \o <<ids, labels>>]

\* the exchanges of the reordering loop on out._ratemap, out._unit_ids and
\* out._unit_labels: the array and the lists of the object at i are changed
\* in place to the rows, ids and labels of c
write_through(h, i, c) ==
    LET ob  == h.objs[i]
        arr == h.cells[ob.ratemap]
        At(r) == {k \in 1..Len(ob.rows) : ob.rows[k] + 1 = r}
    IN  [h EXCEPT !.cells =
            [a \in 1..Len(h.cells) |->
                IF a = ob.ratemap
                THEN [r \in 1..Len(arr) |->
                        IF At(r) = {} THEN arr[r]
                        ELSE c.ratemap[CHOOSE k \in At(r) : TRUE]]
                ELSE IF a = ob.unit_ids THEN c.unit_ids
                ELSE IF a = ob.unit_labels THEN c.unit_labels
                ELSE h.cells[a]]]

\* the outcome of a call: the heap after it, the address of the object it
\* returned (0 if none), and the exception it raised
Outcome(h, ret) == [heap |-> h, ret |-> ret, exc |-> None]

Raised(h, e) == [heap |-> h, ret |-> 0, exc |-> e]

(***************************************************************************)
(* Scalar arithmetic and smoothing                                         *)
(***************************************************************************)
RMul(a, b) == Rat(a[1] * b[1], a[2] * b[2])

RSub(a, b) == RAdd(a, <<0 - b[1], b[2]>>)

\* ratemap + other, ratemap - other, ratemap * other, ratemap / other
scalar_op(ratemap, op, other) ==
    [u \in 1..Len(ratemap) |-> [b \in 1..Len(ratemap[u]) |->
        CASE op = "__add__"     -> RAdd(ratemap[u][b], other)
          [] op = "__sub__"     -> RSub(ratemap[u][b], other)
          [] op = "__mul__"     -> RMul(ratemap[u][b], other)
          [] op = "__truediv__" -> RDiv(ratemap[u][b], other)]]

\* __add__, __sub__, __mul__, __truediv__ with a number: a shallow copy
\* with a new ratemap
arithmetic(h, i, op, other) ==
    LET h1 == copy_copy(h, i)
        j  == Len(h1.objs)
    IN  Outcome(bind_ratemap(h1, j, scalar_op(deref(h, i).ratemap, op, other)),
                j)

\* the weights of scipy's Gaussian kernel for a standard deviation sd (in
\* bins) and a radius: the single weight 1 for radius 0; for sd = 1 and
\* radius 1 the weights exp(-1/2) : 1 : exp(-1/2) scaled to sum 1 (0.274,
\* 0.452, 0.274), rounded to quarters
gaussian_kernel(sd, radius) ==
    IF radius = 0 THEN <<RInt(1)>>
    ELSE <<Rat(1, 4), Rat(1, 2), Rat(1, 4)>>

\* the position the filter reads for position p of an axis of length n
\* (mode "reflect")
reflect(p, n) == IF p < 0 THEN (0 - p) - 1 ELSE IF p >= n THEN 2 * n - 1 - p ELSE p

RECURSIVE WeightedSum(_, _, _, _)
\* sum of weights[k] * row[reflect(b - radius + k - 1)] over k >= from, for
\* the 0-based position b
WeightedSum(row, weights, b, from) ==
    IF from > Len(weights) THEN RInt(0)
    ELSE RAdd(RMul(weights[from],
                   row[reflect(b - (Len(weights) - 1) \div 2 + from - 1,
                               Len(row)) + 1]),
              WeightedSum(row, weights, b, from + 1))

\* gaussian_filter along the bin axis.  With one unit the code passes a
\* scalar sigma, which also filters along the unit axis; on an axis of
\* length one that leaves the row as it is
gaussian_filter(ratemap, weights) ==
    [u \in 1..Len(ratemap) |-> [b \in 1..Len(ratemap[u]) |->
        WeightedSum(ratemap[u], weights, b - 1, 1)]]

\* smooth: the ratemap it assigns.  sigma is converted to bins, and the
\* kernel radius is int(bw * sd + 0.5)
smoothed(c, sigma, bw) ==
    LET sigma0 == Opt(sigma, <<1, 10>>)
        bw0    == Opt(bw, 4)
        ds     == Rat(c.bins[Len(c.bins)] - c.bins[1], n_bins(c))
        sd     == RDiv(sigma0, ds)
        lw     == RAdd(RMul(RInt(bw0), sd), <<1, 2>>)
        radius == lw[1] \div lw[2]
    IN  gaussian_filter(c.ratemap, gaussian_kernel(sd, radius))

(***************************************************************************)
(* The operations on objects                                               *)
(***************************************************************************)
\* __getitem__: a slice gives a view of the array, a list of positions (an
\* int arrives as [i]) gives a new array; ids and labels are new lists
getitem_obj(h, i, idx) ==
    LET c == deref(h, i)
        r == getitem(c, idx)
    IN  IF isempty(c) THEN Outcome(h, i)
        ELSE IF r.kind = "raise" THEN Raised(h, r.exc)
        ELSE LET h1 == copy_copy(h, i)
                 j  == Len(h1.objs)
                 h2 == IF idx.kind = "slice"
                       THEN bind_view(h1, j, positions_of(idx, Len(c.unit_ids)))
                       ELSE bind_ratemap(h1, j, r.ratemap)
             IN  Outcome(bind_ids_labels(h2, j, r.unit_ids, r.unit_labels), j)

\* _unit_subset: a shallow copy with new lists and a new array
unit_subset_obj(h, i, unit_list) ==
    LET r == unit_subset(deref(h, i), unit_list).curve
    IN  IF r.kind = "raise" THEN Raised(h, r.exc)
        ELSE LET h1 == copy_copy(h, i)
                 j  == Len(h1.objs)
             IN  Outcome(bind_ratemap(
                            bind_ids_labels(h1, j, r.unit_ids, r.unit_labels),
                            j, r.ratemap), j)

\* out = self if inplace else copy.deepcopy(self): the heap and the address
\* of out
out_of(h, i, inplace) ==
    IF inplace THEN Outcome(h, i)
    ELSE LET h1 == deepcopy(h, i) IN Outcome(h1, Len(h1.objs))

\* normalize(inplace)
normalize_obj(h, i, inplace) ==
    LET o == out_of(h, i, inplace)
        r == normalize(deref(h, i))
    IN  IF r.kind = "raise" THEN Raised(h, r.exc)
        ELSE Outcome(bind_ratemap(o.heap, o.ret, r.ratemap), o.ret)

\* smooth(sigma, bw, inplace)
smooth_obj(h, i, sigma, bw, inplace) ==
    LET o == out_of(h, i, inplace)
    IN  Outcome(bind_ratemap(o.heap, o.ret, smoothed(deref(h, i), sigma, bw)),
                o.ret)

\* _reorder_units_by_idx and reorder_units_by_ids: the loop exchanges rows,
\* ids and labels of out in place, by the position order
reorder_obj(h, i, order, inplace) ==
    LET o == out_of(h, i, inplace)
    IN  Outcome(write_through(o.heap, o.ret,
                    reordered(deref(o.heap, o.ret), order)), o.ret)

(***************************************************************************)
(* SpecAlias: a curve is constructed from a binned spike train, whose      *)
(* unit_ids and unit_labels lists it keeps (lines 75-76); then calls are   *)
(* made on any object in existence.  tc shows the constructed curve and    *)
(* out the object the last call returned; hist.pre keeps every object as   *)
(* it was before the last call.                                            *)
(***************************************************************************)
\* three units with three different rows
AliasBst ==
    CHOOSE b \in UnitsBsts : b.samples[1].counts = <<1, 0, 0>>

\* the operators and the numbers they are applied with: tc + 1, tc - (-1),
\* tc * 2, tc / 2 (the rates stay above zero)
ArithCalls ==
    {<<"__add__", <<1, 1>>>>, <<"__sub__", <<0 - 1, 1>>>>,
     <<"__mul__", <<2, 1>>>>, <<"__truediv__", <<2, 1>>>>}

\* the id lists subsets are asked by: two units in another order, one unit,
\* a repeated id, and an id that is in no curve
SubsetLists == {<<22, 11>>, <<33>>, <<11, 11>>, <<44>>}

\* (sigma, bw) of smooth: the defaults, and a standard deviation of one bin
\* truncated at one standard deviation
SmoothArgs == {<<{}, {}>>, <<{<<2, 1>>}, {1}>>}

InitAlias ==
    /\ bst = AliasBst
    /\ call = NoCall
    /\ \E passes \in {TuningCurve1D_passes(bst, BaseArgs)} :
          tc = TuningCurve1D_init(bst, BaseArgs, passes)
    /\ out = Blank
    /\ warned = 0
    /\ hist = [pre |-> <<>>, depth |-> 0]
    /\ heap = [cells |-> <<bst.unit_ids, bst.unit_labels, tc.ratemap>>,
               objs |-> <<[ratemap |-> 3, rows |-> Iota(Len(tc.ratemap)),
                           unit_ids |-> 1, unit_labels |-> 2,
                           rest |-> [tc EXCEPT !.ratemap = <<>>,
                                               !.unit_ids = <<>>,
                                               !.unit_labels = <<>>]]>>]

\* the objects a call may be made on
Receivers ==
    {i \in 1..Len(heap.objs) :
        hist.depth < MaxChain /\ ~isempty(deref(heap, i))}

\* the call c on the object at recv has the outcome res
Returns(c, recv, res) ==
    \E r \in {res} :
        /\ heap' = r.heap
        /\ call' = [c EXCEPT !.recv = recv, !.ret = r.ret]
        /\ out' = IF r.exc # None THEN Raise(r.exc)
                  ELSE deref(r.heap, r.ret)
        /\ tc' = deref(r.heap, 1)
        /\ bst' = [bst EXCEPT !.unit_ids = r.heap.cells[1],
                              !.unit_labels = r.heap.cells[2]]
        /\ hist' = [pre |-> [i \in 1..Len(heap.objs) |-> deref(heap, i)],
                    depth |-> hist.depth + 1]
        /\ warned' = 0

Arithmetic ==
    \E recv \in Receivers : \E a \in ArithCalls :
        Returns([op |-> a[1], other |-> a[2], inplace |-> FALSE,
                 recv |-> 0, ret |-> 0],
                recv, arithmetic(heap, recv, a[1], a[2]))

Index ==
    \E recv \in Receivers : \E idx \in Indices :
        Returns([op |-> "__getitem__", idx |-> idx, inplace |-> FALSE,
                 recv |-> 0, ret |-> 0],
                recv, getitem_obj(heap, recv, idx))

Subset ==
    \E recv \in Receivers : \E unit_list \in SubsetLists :
        Returns([op |-> "_unit_subset", unit_list |-> unit_list,
                 inplace |-> FALSE, recv |-> 0, ret |-> 0],
                recv, unit_subset_obj(heap, recv, unit_list))

NormalizeObj ==
    \E recv \in Receivers : \E inplace \in BOOLEAN :
        Returns([op |-> "normalize", inplace |-> inplace,
                 recv |-> 0, ret |-> 0],
                recv, normalize_obj(heap, recv, inplace))

SmoothObj ==
    \E recv \in Receivers : \E sb \in SmoothArgs : \E inplace \in BOOLEAN :
        Returns([op |-> "smooth", sigma |-> sb[1], bw |-> sb[2],
                 inplace |-> inplace, recv |-> 0, ret |-> 0],
                recv, smooth_obj(heap, recv, sb[1], sb[2], inplace))

ReorderIdxObj ==
    \E recv \in Receivers : \E inplace \in BOOLEAN :
    \E neworder \in {{}} \cup
            {{p} : p \in Perms(Len(deref(heap, recv).unit_ids))} :
        Returns([op |-> "_reorder_units_by_idx", neworder |-> neworder,
                 inplace |-> inplace, recv |-> 0, ret |-> 0],
                recv,
                reorder_obj(heap, recv,
                    idx_order(deref(heap, recv), neworder), inplace))

ReorderIdsObj ==
    \E recv \in Receivers : \E inplace \in BOOLEAN :
    \E neworder \in {{}} \cup {{p} : p \in IdPerms(deref(heap, recv))} :
        Returns([op |-> "reorder_units_by_ids", neworder |-> neworder,
                 inplace |-> inplace, recv |-> 0, ret |-> 0],
                recv,
                reorder_obj(heap, recv,
                    ids_order(deref(heap, recv), neworder), inplace))

\* reorder_units(inplace): reorder_units_by_ids in the peak firing order
ReorderUnitsObj ==
    \E recv \in Receivers : \E inplace \in BOOLEAN :
        Returns([op |-> "reorder_units", neworder |-> {},
                 inplace |-> inplace, recv |-> 0, ret |-> 0],
                recv,
                reorder_obj(heap, recv,
                    ids_order(deref(heap, recv), {}), inplace))

NextAlias ==
    \/ Arithmetic
    \/ Index
    \/ Subset
    \/ NormalizeObj
    \/ SmoothObj
    \/ ReorderIdxObj
    \/ ReorderIdsObj
    \/ ReorderUnitsObj

SpecAlias == InitAlias /\ [][NextAlias]_vars

(***************************************************************************)
(* Properties of the operations on objects (SpecAlias)                     *)
(***************************************************************************)
\* the object the last call was made on, before and after the call
RecvBefore == hist.pre[call.recv]

RecvAfter == deref(heap, call.recv)

\* the curve the last call has to produce from its receiver
Expected ==
    CASE call.op = "normalize" -> normalize(RecvBefore)
      [] call.op = "smooth" ->
            [RecvBefore EXCEPT
                !.ratemap = smoothed(RecvBefore, call.sigma, call.bw)]
      [] call.op = "_reorder_units_by_idx" ->
            reorder_units_by_idx(RecvBefore, call.neworder)
      [] call.op \in {"reorder_units_by_ids", "reorder_units"} ->
            reorder_units_by_ids(RecvBefore, call.neworder)

\* C12: normalize, smooth, _reorder_units_by_idx, reorder_units_by_ids and
\* reorder_units called without inplace=True return a new object holding the
\* changed curve and leave the receiver's ratemap, occupancy, unit_ids and
\* unit_labels as they were; with inplace=True they return the receiver,
\* which then holds the changed curve.
C12_DefaultNonMutation ==
    ( /\ call.op \in {"normalize", "smooth", "_reorder_units_by_idx",
                      "reorder_units_by_ids", "reorder_units"} )
    => /\ out.kind = "curve"
       /\ out = Expected
       /\ IF call.inplace
          THEN /\ call.ret = call.recv
               /\ RecvAfter = Expected
          ELSE /\ call.ret > Len(hist.pre)
               /\ RecvAfter.ratemap = RecvBefore.ratemap
               /\ RecvAfter.occupancy = RecvBefore.occupancy
               /\ RecvAfter.unit_ids = RecvBefore.unit_ids
               /\ RecvAfter.unit_labels = RecvBefore.unit_labels

\* a curve returned by an arithmetic operator, which shares its id list
\* with the constructed curve, was reordered without inplace: the result is
\* in another order than the receiver
C12_Witness ==
    /\ call.op = "_reorder_units_by_idx"
    /\ ~call.inplace
    /\ call.recv = 2
    /\ heap.objs[2].unit_ids = heap.objs[1].unit_ids
    /\ call.ret = 3
    /\ out.unit_ids # RecvAfter.unit_ids
    /\ out.ratemap # RecvAfter.ratemap

\* the units of a curve: the id, the label and the rates at each position
Units(c) ==
    {<<c.unit_ids[k], c.unit_labels[k], c.ratemap[k]>> :
        k \in 1..Len(c.unit_ids)}

\* C14: after a scalar arithmetic, indexing, subsetting or reordering call
\* (in place or not) on one curve, every other curve in existence still
\* has each unit id and label at the position of the same rates as before
\* the call.
C14_IdRowConsistency ==
    ( /\ call.op \in {"__add__", "__sub__", "__mul__", "__truediv__",
                      "__getitem__", "_unit_subset",
                      "_reorder_units_by_idx", "reorder_units_by_ids",
                      "reorder_units"} )
    => \A i \in 1..Len(hist.pre) :
          i # call.recv => Units(deref(heap, i)) = Units(hist.pre[i])

====
